---- MODULE Spec2Model ----
(***************************************************************************)
(* Model of timeutils.Time (src/timeutils.py): the duration-string parser  *)
(* and formatter, the calendar conversions and the sleep helpers.          *)
(*                                                                         *)
(* A Python str is modelled as a sequence of one-character strings, so     *)
(* that strip/split/regex matching/int() are computed character by         *)
(* character.  The outcome of a call is a record: either a returned value  *)
(* or a raised exception with its message.                                 *)
(***************************************************************************)
EXTENDS Integers, Sequences, FiniteSets, TLC

VARIABLES pc, op, _str, delim, duration, time, outcome,
          clock, called, wake, resumes, coros

vars == <<pc, op, _str, delim, duration, time, outcome,
          clock, called, wake, resumes, coros>>

----------------------------------------------------------------------------
(* Bounds of the model *)

MaxLen == 5        \* longest enumerated duration string
MaxDigits == 2     \* longest run of digits in an enumerated string
MaxCount == 1      \* largest per-unit count in an enumerated duration
MaxK == 40         \* calendar instants enumerated on each side of the epoch
MaxTicks == 12     \* clock ticks in a sleep run
MaxTargetS == 3    \* latest sleep target, in seconds

----------------------------------------------------------------------------
(* Python values and call outcomes *)

Return(v) == [kind |-> "return", value |-> v]
Raise(e, m) == [kind |-> "raise", exc |-> e, msg |-> m]
NoOutcome == [kind |-> "none"]

\* a Python object with its type, where the code mixes int and str
PyInt(n) == [type |-> "int", v |-> n]
PyStr(s) == [type |-> "str", v |-> s]

\* pieces of an f-string: literal text and interpolated str values
Lit(t) == [k |-> "lit", t |-> t]
Val(s) == [k |-> "val", s |-> s]

----------------------------------------------------------------------------
(* Unit table *)

MS == 1
S == 1000 * MS
M == 60 * S
H == 60 * M
D == 24 * H
W == 7 * D

\* dict from suffix to magnitude, in insertion order
_FORMATTERS_items ==
  << <<(<<"w">>), W>>, <<(<<"d">>), D>>, <<(<<"h">>), H>>,
     <<(<<"m">>), M>>, <<(<<"s">>), S>>, <<(<<"m", "s">>), MS>> >>

_FORMATTERS ==
  [u \in {_FORMATTERS_items[i][1] : i \in DOMAIN _FORMATTERS_items} |->
     LET i == CHOOSE j \in DOMAIN _FORMATTERS_items : _FORMATTERS_items[j][1] = u
     IN  _FORMATTERS_items[i][2]]

\* sorted(items, key=lambda e: e[1], reverse=True): repeatedly take the
\* entry of largest magnitude
RECURSIVE sorted_reverse(_)
sorted_reverse(items) ==
  IF items = {} THEN << >>
  ELSE LET e == CHOOSE x \in items : \A y \in items : x[2] >= y[2]
       IN  <<e>> \o sorted_reverse(items \ {e})

_FMT_ARR ==
  sorted_reverse({_FORMATTERS_items[i] : i \in DOMAIN _FORMATTERS_items})

----------------------------------------------------------------------------
(* str helpers used by from_duration_string *)

Whitespace == {" ", "\t", "\n", "\r"}
DigitChars == {"0", "1", "2", "3", "4", "5", "6", "7", "8", "9"}
LowerChars == {"a", "b", "c", "d", "e", "f", "g", "h", "i", "j", "k", "l", "m",
               "n", "o", "p", "q", "r", "s", "t", "u", "v", "w", "x", "y", "z"}
UpperChars == {"A", "B", "C", "D", "E", "F", "G", "H", "I", "J", "K", "L", "M",
               "N", "O", "P", "Q", "R", "S", "T", "U", "V", "W", "X", "Y", "Z"}
LetterChars == LowerChars \cup UpperChars

\* str.strip(): drop leading and trailing whitespace
RECURSIVE lstrip(_)
lstrip(s) ==
  IF s # << >> /\ Head(s) \in Whitespace THEN lstrip(Tail(s)) ELSE s

RECURSIVE rstrip(_)
rstrip(s) ==
  IF s # << >> /\ s[Len(s)] \in Whitespace
  THEN rstrip(SubSeq(s, 1, Len(s) - 1)) ELSE s

strip(s) == rstrip(lstrip(s))

\* str.split(sep) for a one-character sep: the list of the (possibly empty)
\* pieces between separators; never an empty list
RECURSIVE split_from(_, _, _)
split_from(s, sep, cur) ==
  IF s = << >> THEN <<cur>>
  ELSE IF Head(s) = sep THEN <<cur>> \o split_from(Tail(s), sep, << >>)
  ELSE split_from(Tail(s), sep, Append(cur, Head(s)))

split(s, sep) == split_from(s, sep, << >>)

\* length of the longest prefix of s made of characters of cs
RECURSIVE run_len(_, _)
run_len(s, cs) ==
  IF s # << >> /\ Head(s) \in cs THEN 1 + run_len(Tail(s), cs) ELSE 0

\* _DURATION_FMT_REGEX.match(part) for (\d+)([a-zA-Z]+): anchored at the
\* start, both groups greedy; no match unless a digit run is directly
\* followed by a letter
re_match(part) ==
  LET nd == run_len(part, DigitChars)
      nl == run_len(SubSeq(part, nd + 1, Len(part)), LetterChars)
  IN  IF nd = 0 \/ nl = 0 THEN [matched |-> FALSE]
      ELSE [matched |-> TRUE,
            group0 |-> SubSeq(part, 1, nd + nl),
            group1 |-> SubSeq(part, 1, nd),
            group2 |-> SubSeq(part, nd + 1, nd + nl)]

digit_value ==
  [c \in DigitChars |->
     CASE c = "0" -> 0 [] c = "1" -> 1 [] c = "2" -> 2 [] c = "3" -> 3
       [] c = "4" -> 4 [] c = "5" -> 5 [] c = "6" -> 6 [] c = "7" -> 7
       [] c = "8" -> 8 [] c = "9" -> 9]

\* int(value_str) of a string of decimal digits
RECURSIVE int(_)
int(s) ==
  IF s = << >> THEN 0
  ELSE int(SubSeq(s, 1, Len(s) - 1)) * 10 + digit_value[s[Len(s)]]

----------------------------------------------------------------------------
(* Time.from_duration_string *)

\* parse_part with the full-match test `match.group(0) != part` left out
parse_part_no_full_match(str, part) ==
  LET match == re_match(part) IN
  IF ~match.matched
  THEN Raise("ValueError",
             <<Lit("Invalid duration: '"), Val(str), Lit("', part='"),
               Val(part), Lit("'")>>)
  ELSE LET value_str == match.group1
           unit_str == match.group2
       IN  IF unit_str \notin DOMAIN _FORMATTERS
           THEN Raise("ValueError",
                      <<Lit("Unknown duration formatter '"), Val(unit_str),
                        Lit("'")>>)
           ELSE Return(int(value_str) * _FORMATTERS[unit_str])

\* parse_part with _FORMATTERS.get(unit_str, MS): an unknown unit counts as ms
parse_part_default_unit(str, part) ==
  LET match == re_match(part) IN
  IF ~match.matched
  THEN Raise("ValueError",
             <<Lit("Invalid duration: '"), Val(str), Lit("', part='"),
               Val(part), Lit("'")>>)
  ELSE IF match.group0 # part
  THEN Raise("ValueError",
             <<Lit("Invalid duration '"), Val(str), Lit("'. Check delimiter.")>>)
  ELSE LET value_str == match.group1
           unit_str == match.group2
       IN  IF unit_str \notin DOMAIN _FORMATTERS
           THEN Return(int(value_str) * MS)
           ELSE Return(int(value_str) * _FORMATTERS[unit_str])

\* one iteration of the loop body: the exception it raises, or the
\* milliseconds it adds to the total
parse_part(str, part) ==
  LET match == re_match(part) IN
  IF ~match.matched
  THEN Raise("ValueError",
             <<Lit("Invalid duration: '"), Val(str), Lit("', part='"),
               Val(part), Lit("'")>>)
  ELSE IF match.group0 # part
  THEN Raise("ValueError",
             <<Lit("Invalid duration '"), Val(str), Lit("'. Check delimiter.")>>)
  ELSE LET value_str == match.group1
           unit_str == match.group2
       IN  IF unit_str \notin DOMAIN _FORMATTERS
           THEN Raise("ValueError",
                      <<Lit("Unknown duration formatter '"), Val(unit_str),
                        Lit("'")>>)
           ELSE Return(int(value_str) * _FORMATTERS[unit_str])

\* parse_loop with `duration = ...` in place of `duration += ...`
RECURSIVE parse_loop_no_accumulate(_, _, _, _)
parse_loop_no_accumulate(str, parts, i, total) ==
  IF i > Len(parts) THEN Return(total)
  ELSE LET r == parse_part(str, parts[i])
       IN  IF r.kind = "raise" THEN r
           ELSE parse_loop_no_accumulate(str, parts, i + 1, r.value)

\* the for loop over the parts, from part i on, with the running total
RECURSIVE parse_loop(_, _, _, _)
parse_loop(str, parts, i, total) ==
  IF i > Len(parts) THEN Return(total)
  ELSE LET r == parse_part(str, parts[i])
       IN  IF r.kind = "raise" THEN r
           ELSE parse_loop(str, parts, i + 1, total + r.value)

from_duration_string(str, dl) == parse_loop(str, split(strip(str), dl), 1, 0)

----------------------------------------------------------------------------
(* Time.format_duration *)

\* '%d' % v for v >= 0
RECURSIVE fmt_d(_)
fmt_d(v) ==
  LET c == CHOOSE x \in DigitChars : digit_value[x] = v % 10
  IN  IF v < 10 THEN <<c>> ELSE Append(fmt_d(v \div 10), c)

\* buf += <str>: defined for two ints or two strs, TypeError otherwise
py_iadd(a, b) ==
  IF a.type = "int" /\ b.type = "int" THEN Return(PyInt(a.v + b.v))
  ELSE IF a.type = "str" /\ b.type = "str" THEN Return(PyStr(a.v \o b.v))
  ELSE Raise("TypeError",
             <<Lit("unsupported operand type(s) for +=: '"), Lit(a.type),
               Lit("' and '"), Lit(b.type), Lit("'")>>)

\* the statements after the for loop: len(buf), the zero case, buf[:-1]
format_tail(buf) ==
  IF buf.type # "str"
  THEN Raise("TypeError",
             <<Lit("object of type '"), Lit(buf.type), Lit("' has no len()")>>)
  ELSE IF Len(buf.v) = 0
  THEN Raise("TypeError",
             <<Lit("unsupported operand type(s) for &: 'str' and 'module'")>>)
  ELSE Return(SubSeq(buf.v, 1, Len(buf.v) - 1))

\* the for loop over _FMT_ARR, from entry i on
RECURSIVE format_loop(_, _, _, _)
format_loop(i, dur, parts, buf) ==
  IF i > Len(_FMT_ARR) THEN format_tail(buf)
  ELSE LET unit == _FMT_ARR[i][1]
           value == _FMT_ARR[i][2]
           v == dur \div value
           rest == dur % value
       IN  IF v > 0 /\ parts < Len(_FMT_ARR)
           THEN LET r == py_iadd(buf, PyStr(fmt_d(v) \o unit \o <<" ">>))
                IN  IF r.kind = "raise" THEN r
                    ELSE format_loop(i + 1, rest, parts + 1, r.value)
           ELSE format_loop(i + 1, rest, parts, buf)

\* abs(time) is applied to the module `time`, not to the duration
format_duration(dur) ==
  IF dur < 0
  THEN Raise("TypeError", <<Lit("bad operand type for abs(): 'module'")>>)
  ELSE format_loop(1, dur, 0, PyInt(0))

----------------------------------------------------------------------------
(* Calendar conversions: a datetime is a UTC civil date and time of day *)

_DAYS_IN_MONTH == <<31, 28, 31, 30, 31, 30, 31, 31, 30, 31, 30, 31>>

is_leap(y) == y % 4 = 0 /\ (y % 100 # 0 \/ y % 400 = 0)

days_before_year(y) ==
  (y - 1) * 365 + (y - 1) \div 4 - (y - 1) \div 100 + (y - 1) \div 400

RECURSIVE days_before_month(_, _)
days_before_month(y, m) ==
  IF m = 1 THEN 0
  ELSE days_before_month(y, m - 1) + _DAYS_IN_MONTH[m - 1]
       + (IF m - 1 = 2 /\ is_leap(y) THEN 1 ELSE 0)

\* datetime.toordinal(): days since 0001-01-01, that day being 1
ymd2ord(y, m, d) == days_before_year(y) + days_before_month(y, m) + d

\* the inverse of ymd2ord, by 400-, 100-, 4- and 1-year cycles
ord2ymd(ordinal) ==
  LET n0 == ordinal - 1
      n400 == n0 \div 146097
      r400 == n0 % 146097
      n100 == r400 \div 36524
      r100 == r400 % 36524
      n4 == r100 \div 1461
      r4 == r100 % 1461
      n1 == r4 \div 365
      n == r4 % 365
      year == n400 * 400 + 1 + n100 * 100 + n4 * 4 + n1
      month == CHOOSE m \in 1..12 :
                 /\ days_before_month(year, m) <= n
                 /\ m = 12 \/ days_before_month(year, m + 1) > n
  IN  IF n1 = 4 \/ n100 = 4
      THEN [year |-> year - 1, month |-> 12, day |-> 31]
      ELSE [year |-> year, month |-> month,
            day |-> n - days_before_month(year, month) + 1]

\* datetime(1970, 1, 1, 0, 0, 0, 0, tz.tzutc())
EPOCH ==
  [year |-> 1970, month |-> 1, day |-> 1, hour |-> 0, minute |-> 0,
   second |-> 0, microsecond |-> 0, tzinfo |-> "UTC"]

\* datetime.utcfromtimestamp(unix_s) then replace(tzinfo=UTC)
_datetime_from_unix_s(unix_s) ==
  LET days == unix_s \div 86400
      rem == unix_s % 86400
      ymd == ord2ymd(ymd2ord(1970, 1, 1) + days)
  IN  [year |-> ymd.year, month |-> ymd.month, day |-> ymd.day,
       hour |-> rem \div 3600, minute |-> (rem % 3600) \div 60,
       second |-> rem % 60, microsecond |-> 0, tzinfo |-> "UTC"]

\* a - b for two UTC datetimes: a normalised timedelta
datetime_sub(a, b) ==
  LET ds == (ymd2ord(a.year, a.month, a.day) - ymd2ord(b.year, b.month, b.day))
              * 86400
            + (a.hour - b.hour) * 3600 + (a.minute - b.minute) * 60
            + (a.second - b.second)
      us == a.microsecond - b.microsecond
      secs == IF us < 0 THEN ds - 1 ELSE ds
  IN  [days |-> secs \div 86400, seconds |-> secs % 86400,
       microseconds |-> us % 1000000]

\* int(td.total_seconds()): truncation toward zero
int_total_seconds(td) ==
  LET whole == td.days * 86400 + td.seconds
  IN  IF whole < 0 /\ td.microseconds > 0 THEN whole + 1 ELSE whole

_datetime_to_unix_s(dt) == int_total_seconds(datetime_sub(dt, EPOCH))

to_datetime(t) == _datetime_from_unix_s(t \div S)

\* from_datetime without the conversion of seconds to milliseconds
from_datetime_seconds(dt) == _datetime_to_unix_s(dt)

from_datetime(dt) == _datetime_to_unix_s(dt) * S

----------------------------------------------------------------------------
(* Clock and sleep helpers *)

TickMs == 250

\* int(round(x)) for x = num / den: round half to even
round_half_even(num, den) ==
  LET q == num \div den
      r2 == 2 * (num % den)
  IN  IF r2 < den THEN q
      ELSE IF r2 > den THEN q + 1
      ELSE IF q % 2 = 0 THEN q ELSE q + 1

\* Time.abs_now() when the wall clock reads c milliseconds
abs_now(c) == round_half_even(c, 1000) * S

----------------------------------------------------------------------------
(* Inputs *)

Alphabet == {"1", "2", "h", "m", "s", "H", " ", ",", "+"}

Delims == {" ", ","}

RECURSIVE max_digit_run(_, _, _)
max_digit_run(s, cur, best) ==
  IF s = << >> THEN best
  ELSE IF Head(s) \in DigitChars
  THEN max_digit_run(Tail(s), cur + 1, IF cur + 1 > best THEN cur + 1 ELSE best)
  ELSE max_digit_run(Tail(s), 0, best)

\* the strings of the docstring, and further sample inputs
DocStrings ==
  { <<"1", "h">>,
    <<"3", "h", " ", "5", "m">>,
    <<"2", "d", ",", "8", "h", ",", "4", "9", "m", ",", "3", "s">>,
    <<"1", "w">>,
    <<"5", "m", " ", "1", "h">>,
    <<"1", "h", " ", "5", "m">>,
    <<"1", "h", " ", "2", "h">>,
    <<"1", "h", "2", "m">>,
    <<"5", "x">>,
    <<"5", "M", "S">>,
    <<"1", "h", " ", " ", "2", "m">>,
    <<" ", "1", "h", " ", "5", "m", "s", " ">>,
    <<"-", "1", "h">>,
    <<"1", ".", "5", "h">> }

DurationStrings ==
  {s \in UNION {[1..n -> Alphabet] : n \in 0..MaxLen} :
     max_digit_run(s, 0, 0) <= MaxDigits}
  \cup DocStrings

\* every sum of at most MaxCount of each unit, and its negation
Durations ==
  LET sums == {c[1] * W + c[2] * D + c[3] * H + c[4] * M + c[5] * S + c[6] * MS :
                 c \in [1..6 -> 0..MaxCount]}
  IN  sums \cup {0 - x : x \in sums}

CalStep == 7 * H + M + S

Instants ==
  {k * CalStep + r : k \in (0 - MaxK)..MaxK, r \in {0, 1, 500, 999}}

Targets == {k * 500 : k \in 0..(2 * MaxTargetS)}

----------------------------------------------------------------------------
(* The calls *)

Idle ==
  /\ pc = "call" /\ outcome = NoOutcome
  /\ clock = 0 /\ called = -1 /\ wake = -1 /\ resumes = 0 /\ coros = {}

\* Time.from_duration_string(_str, delim=delim)
InitParse ==
  /\ Idle
  /\ op = "from_duration_string"
  /\ _str \in DurationStrings /\ delim \in Delims
  /\ duration = 0 /\ time = 0

FromDurationString ==
  /\ pc = "call" /\ op = "from_duration_string"
  /\ outcome' = from_duration_string(_str, delim)
  /\ pc' = "done"
  /\ UNCHANGED <<op, _str, delim, duration, time, clock, called, wake,
                 resumes, coros>>

NextParse == FromDurationString

SpecParse == InitParse /\ [][NextParse]_vars

\* Time.format_duration(duration), alone and composed with the parser
InitFormat ==
  /\ Idle
  /\ \/ /\ op \in {"format_duration", "parse_of_format"}
        /\ duration \in Durations
        /\ _str = << >>
     \/ /\ op = "format_of_parse"
        /\ _str \in DocStrings
        /\ duration = 0
  /\ delim = " " /\ time = 0

FormatDuration ==
  /\ pc = "call" /\ op = "format_duration"
  /\ outcome' = format_duration(duration)
  /\ pc' = "done"
  /\ UNCHANGED <<op, _str, delim, duration, time, clock, called, wake,
                 resumes, coros>>

\* Time.from_duration_string(Time.format_duration(duration))
ParseOfFormat ==
  /\ pc = "call" /\ op = "parse_of_format"
  /\ LET f == format_duration(duration)
     IN  outcome' = IF f.kind = "raise" THEN f
                    ELSE from_duration_string(f.value, delim)
  /\ pc' = "done"
  /\ UNCHANGED <<op, _str, delim, duration, time, clock, called, wake,
                 resumes, coros>>

\* Time.format_duration(Time.from_duration_string(_str))
FormatOfParse ==
  /\ pc = "call" /\ op = "format_of_parse"
  /\ LET d == from_duration_string(_str, delim)
     IN  outcome' = IF d.kind = "raise" THEN d ELSE format_duration(d.value)
  /\ pc' = "done"
  /\ UNCHANGED <<op, _str, delim, duration, time, clock, called, wake,
                 resumes, coros>>

NextFormat == FormatDuration \/ ParseOfFormat \/ FormatOfParse

SpecFormat == InitFormat /\ [][NextFormat]_vars

\* Time.from_datetime(Time.to_datetime(time))
InitCal ==
  /\ Idle
  /\ op = "to_datetime"
  /\ time \in Instants
  /\ _str = << >> /\ delim = " " /\ duration = 0

ToDatetime ==
  /\ pc = "call" /\ op = "to_datetime"
  /\ outcome' = Return(to_datetime(time))
  /\ pc' = "converted"
  /\ UNCHANGED <<op, _str, delim, duration, time, clock, called, wake,
                 resumes, coros>>

FromDatetime ==
  /\ pc = "converted" /\ op = "to_datetime"
  /\ outcome' = Return(from_datetime(outcome.value))
  /\ pc' = "done"
  /\ UNCHANGED <<op, _str, delim, duration, time, clock, called, wake,
                 resumes, coros>>

NextCal == ToDatetime \/ FromDatetime

SpecCal == InitCal /\ [][NextCal]_vars

\* Time.sleep_until(time) awaited by a task, and Time.sleep_until_sync(time)
InitSleep ==
  /\ Idle
  /\ op \in {"sleep_until", "sleep_until_sync"}
  /\ time \in Targets
  /\ _str = << >> /\ delim = " " /\ duration = 0

\* the wall clock advances
Tick ==
  /\ clock < MaxTicks * TickMs
  /\ clock' = clock + TickMs
  /\ UNCHANGED <<pc, op, _str, delim, duration, time, outcome, called, wake,
                 resumes, coros>>

\* sleep_until_sync: time.sleep(delta / S) blocks the thread for delta ms
SleepUntilSync ==
  /\ pc = "call" /\ op = "sleep_until_sync"
  /\ called' = clock
  /\ LET delta == time - abs_now(clock)
     IN  IF delta > 0
         THEN /\ pc' = "sleeping"
              /\ wake' = clock + delta
              /\ outcome' = outcome
         ELSE /\ pc' = "done"
              /\ wake' = wake
              /\ outcome' = Return("None")
  /\ UNCHANGED <<op, _str, delim, duration, time, clock, resumes, coros>>

\* time.sleep returns once the delay has elapsed
SleepSyncWake ==
  /\ pc = "sleeping" /\ clock >= wake
  /\ pc' = "done"
  /\ resumes' = resumes + 1
  /\ outcome' = Return("None")
  /\ UNCHANGED <<op, _str, delim, duration, time, clock, called, wake, coros>>

\* sleep_until: asyncio.sleep(delta / S) only creates a coroutine object;
\* it is not awaited, so the task is never suspended and the call returns
SleepUntil ==
  /\ pc = "call" /\ op = "sleep_until"
  /\ called' = clock
  /\ LET delta == time - abs_now(clock)
     IN  coros' = IF delta > 0
                  THEN coros \cup {[delay |-> delta, awaited |-> FALSE]}
                  ELSE coros
  /\ outcome' = Return("None")
  /\ pc' = "done"
  /\ UNCHANGED <<op, _str, delim, duration, time, clock, wake, resumes>>

NextSleep == Tick \/ SleepUntilSync \/ SleepSyncWake \/ SleepUntil

SpecSleep == InitSleep /\ [][NextSleep]_vars

----------------------------------------------------------------------------
(* Vocabulary of the properties *)

Str1h == <<"1", "h">>
Str3h5m == <<"3", "h", " ", "5", "m">>
Str2d8h49m3s == <<"2", "d", ",", "8", "h", ",", "4", "9", "m", ",", "3", "s">>
Str1w == <<"1", "w">>
Str5m1h == <<"5", "m", " ", "1", "h">>
Str1h5m == <<"1", "h", " ", "5", "m">>
Str1h2m == <<"1", "h", "2", "m">>
Str0ms == <<"0", "m", "s">>

\* the segments of the call's input: trimmed, then split on the delimiter
Segs == split(strip(_str), delim)

\* seg is one or more digits followed by one or more letters, end to end
IsDigitsLetters(seg) ==
  \E k \in 1..(Len(seg) - 1) :
    /\ \A i \in 1..k : seg[i] \in DigitChars
    /\ \A i \in (k + 1)..Len(seg) : seg[i] \in LetterChars

SegDigits(seg) ==
  SubSeq(seg, 1, CHOOSE k \in 1..(Len(seg) - 1) :
                   /\ \A i \in 1..k : seg[i] \in DigitChars
                   /\ \A i \in (k + 1)..Len(seg) : seg[i] \in LetterChars)

SegLetters(seg) == SubSeq(seg, Len(SegDigits(seg)) + 1, Len(seg))

\* the magnitudes the specification lists
Magnitude ==
  (<<"m", "s">> :> 1) @@ (<<"s">> :> 1000) @@ (<<"m">> :> 60000) @@
  (<<"h">> :> 3600000) @@ (<<"d">> :> 86400000) @@ (<<"w">> :> 604800000)

IsKnownToken(seg) ==
  IsDigitsLetters(seg) /\ SegLetters(seg) \in DOMAIN Magnitude

IsUnknownUnitToken(seg) ==
  IsDigitsLetters(seg) /\ SegLetters(seg) \notin DOMAIN Magnitude

RECURSIVE SumOfTokens(_)
SumOfTokens(segs) ==
  IF segs = << >> THEN 0
  ELSE int(SegDigits(Head(segs))) * Magnitude[SegLetters(Head(segs))]
       + SumOfTokens(Tail(segs))

Reverse(q) == [i \in 1..Len(q) |-> q[Len(q) + 1 - i]]

RECURSIVE Join(_, _)
Join(segs, sep) ==
  IF segs = << >> THEN << >>
  ELSE IF Len(segs) = 1 THEN segs[1]
  ELSE segs[1] \o <<sep>> \o Join(Tail(segs), sep)

\* the error says that unit u is not recognized
IdentifiesUnit(o, u) ==
  /\ o.kind = "raise"
  /\ Len(o.msg) >= 2
  /\ o.msg[1] = Lit("Unknown duration formatter '")
  /\ o.msg[2] = Val(u)

\* v occurs, contiguously, in s
Contains(s, v) ==
  \E i \in 0..(Len(s) - Len(v)) : SubSeq(s, i + 1, i + Len(v)) = v

\* the error's message shows the value v
Carries(o, v) ==
  \E j \in DOMAIN o.msg : o.msg[j].k = "val" /\ Contains(o.msg[j].s, v)

ParseDone == pc = "done" /\ op = "from_duration_string"

\* the greedy largest-unit-first text of a positive duration
GreedyUnits == << <<"w">>, <<"d">>, <<"h">>, <<"m">>, <<"s">>, <<"m", "s">> >>

RECURSIVE GreedyTokens(_, _)
GreedyTokens(i, remaining) ==
  IF i > Len(GreedyUnits) THEN << >>
  ELSE LET mag == Magnitude[GreedyUnits[i]]
           count == remaining \div mag
       IN  (IF count > 0 THEN <<fmt_d(count) \o GreedyUnits[i]>> ELSE << >>)
           \o GreedyTokens(i + 1, remaining % mag)

GreedyText(d) == Join(GreedyTokens(1, d), " ")

----------------------------------------------------------------------------
(* Properties of the formatter *)

\* C1: for every non-negative d, from_duration_string(format_duration(d))
\* returns exactly d, and format_duration(from_duration_string("1w")) is "1w".
C1_RoundTrip ==
  /\ (pc = "done" /\ op = "parse_of_format" /\ duration >= 0)
       => outcome = Return(duration)
  /\ (pc = "done" /\ op = "format_of_parse" /\ _str = Str1w)
       => outcome = Return(Str1w)

\* C2: format_duration(0) returns the literal string "0ms".
C2_ZeroIsLiteral ==
  (pc = "done" /\ op = "format_duration" /\ duration = 0)
    => outcome = Return(Str0ms)

\* C3: for every positive d, format_duration(d) returns the greedy
\* largest-unit-first decomposition of d, tokens joined by single spaces.
C3_GreedyDecomposition ==
  (pc = "done" /\ op = "format_duration" /\ duration > 0)
    => outcome = Return(GreedyText(duration))

\* C4: for every negative d, format_duration(d) does not fail and returns
\* the same string as format_duration(-d).
C4_NegativeAsAbsolute ==
  (pc = "done" /\ op = "format_duration" /\ duration < 0)
    => /\ outcome.kind = "return"
       /\ outcome = format_duration(0 - duration)

----------------------------------------------------------------------------
(* Properties of the parser *)

\* C5: when every segment is <digits><known suffix>, the call returns the
\* sum of count * magnitude over the segments, whatever their order, and
\* the documented examples give 3600000, 11100000 and 204543000.
C5_SumOfSegments ==
  ParseDone =>
    /\ (\A i \in DOMAIN Segs : IsKnownToken(Segs[i]))
         => /\ outcome = Return(SumOfTokens(Segs))
            /\ from_duration_string(Join(Reverse(Segs), delim), delim) = outcome
    /\ (_str = Str1h) => outcome = Return(3600000)
    /\ (_str = Str3h5m /\ delim = " ") => outcome = Return(11100000)
    /\ (_str = Str2d8h49m3s /\ delim = ",") => outcome = Return(204543000)
    /\ (_str = Str5m1h /\ delim = " ")
         => outcome = from_duration_string(Str1h5m, " ")

\* C5 witness: two segments of the same unit were parsed and accumulated.
C5_Witness ==
  /\ ParseDone
  /\ Len(Segs) = 2
  /\ \A i \in DOMAIN Segs : IsKnownToken(Segs[i])
  /\ SegLetters(Segs[1]) = SegLetters(Segs[2])
  /\ outcome.kind = "return"
  /\ outcome.value > int(SegDigits(Segs[2])) * Magnitude[SegLetters(Segs[2])]

\* C6: when some segment is not <digits><letters> end to end, the call
\* raises a ValueError and returns no value.
C6_MalformedSegmentFails ==
  ParseDone =>
    ((\E i \in DOMAIN Segs : ~IsDigitsLetters(Segs[i]))
       => outcome.kind = "raise" /\ outcome.exc = "ValueError")

\* C6 witness: "1h2m" with the space delimiter was rejected.
C6_Witness ==
  /\ ParseDone
  /\ _str = Str1h2m /\ delim = " "
  /\ outcome.kind = "raise"

\* C7 as stated: when some segment is <digits><letters> with letters that
\* are no known unit, the call raises an error identifying such a unit.
C7_Original ==
  ParseDone =>
    ((\E i \in DOMAIN Segs : IsUnknownUnitToken(Segs[i]))
       => \E i \in DOMAIN Segs :
            /\ IsUnknownUnitToken(Segs[i])
            /\ IdentifiesUnit(outcome, SegLetters(Segs[i])))

\* C7 amended: when some segment is <digits><letters> with letters that are
\* no known unit, the call raises a ValueError; the error identifies that
\* segment's letters as the unrecognized unit when every earlier segment is
\* a valid <digits><known suffix> token.
C7_UnknownUnitFails ==
  ParseDone =>
    \A i \in DOMAIN Segs :
      IsUnknownUnitToken(Segs[i])
        => /\ outcome.kind = "raise" /\ outcome.exc = "ValueError"
           /\ (\A j \in 1..(i - 1) : IsKnownToken(Segs[j]))
                => IdentifiesUnit(outcome, SegLetters(Segs[i]))

\* C7 witness: after a valid segment, an upper-case unit was rejected by name.
C7_Witness ==
  /\ ParseDone
  /\ Len(Segs) = 2
  /\ IsKnownToken(Segs[1])
  /\ IsUnknownUnitToken(Segs[2])
  /\ SegLetters(Segs[2]) = <<"H">>
  /\ IdentifiesUnit(outcome, <<"H">>)

\* C8: every error of the parser shows both the offending segment and the
\* original input string.
C8_ErrorCarriesSegmentAndInput ==
  (ParseDone /\ outcome.kind = "raise")
    => LET bad == CHOOSE i \in DOMAIN Segs :
                    /\ ~IsKnownToken(Segs[i])
                    /\ \A j \in 1..(i - 1) : IsKnownToken(Segs[j])
       IN  /\ Carries(outcome, Segs[bad])
           /\ Carries(outcome, _str)

----------------------------------------------------------------------------
(* Property of the suspending sleep *)

\* C9: sleep_until(target) with target later than the current time returns
\* only after the remaining delta has elapsed, having resumed exactly once;
\* with target not in the future it returns at once.
C9_SleepUntilWaits ==
  (pc = "done" /\ op = "sleep_until")
    => IF time > abs_now(called)
       THEN /\ clock >= called + (time - abs_now(called))
            /\ resumes = 1
       ELSE resumes = 0

----------------------------------------------------------------------------
(* Property of the calendar conversions *)

\* C10: from_datetime(to_datetime(ms)) is a multiple of 1000 within one
\* second of ms, and is ms itself when ms is a multiple of 1000.
C10_CalendarRoundTrip ==
  (pc = "done" /\ op = "to_datetime")
    => /\ outcome.value % 1000 = 0
       /\ outcome.value - time < 1000 /\ time - outcome.value < 1000
       /\ (time % 1000 = 0) => outcome.value = time

\* C10 witness: an instant before the epoch, not on a whole second, went
\* through both conversions.
C10_Witness ==
  /\ pc = "done" /\ op = "to_datetime"
  /\ time < 0 /\ time % 1000 # 0
  /\ outcome.value # time

====
